---- MODULE Spec2Model ----
(***************************************************************************)
(* Model of the request admission gate of the Next.js frontend             *)
(* (middleware.ts), of the refresh-token proxy route it calls, and of the  *)
(* protected profile route handlers that run behind it.                    *)
(*                                                                         *)
(* One request is evaluated at a time: Receive draws the request, the      *)
(* middleware steps follow the awaits of the code, the downstream handler  *)
(* runs when the middleware answered NextResponse.next(), and EndRequest   *)
(* drops everything the evaluation held.                                   *)
(***************************************************************************)
EXTENDS Integers, Sequences, FiniteSets, TLC

VARIABLES
    pc,            \* position of the evaluation
    now,           \* Math.floor(Date.now() / 1000)
    path,          \* request.nextUrl.pathname
    method,        \* HTTP method of the inbound request
    access,        \* the access_token cookie of the request
    refresh,       \* the refresh_token cookie of the request
    verifyResult,  \* outcome of the verification step of isAuthenticated
    verifyCalls,   \* number of verifyJWTToken calls of this evaluation
    renewCalls,    \* number of fetch calls to /api/users/refresh-token
    upstream,      \* answer of the issuing service to the refresh proxy
    proxyResp,     \* response of the refresh proxy route (refreshResponse)
    renewResult,   \* result of attemptTokenRefresh
    authResult,    \* result of isAuthenticated
    response,      \* response of the middleware
    handler,       \* downstream handler that ran, and its answer
    receivedAt,    \* value of the clock when the request arrived
    body,          \* body of the inbound request
    fetchReq,      \* request of attemptTokenRefresh to the refresh route
    upstreamReq,   \* request of the refresh route to the issuing service
    login,         \* a login: the page's submit and the login route's answer
    client,        \* a browser: its cookies and what it saw last
    evals          \* evaluations of the middleware in flight at once

vars == <<pc, now, path, method, access, refresh, verifyResult, verifyCalls,
          renewCalls, upstream, proxyResp, renewResult, authResult, response,
          handler, receivedAt, body, fetchReq, upstreamReq, login, client,
          evals>>

(* What one evaluation of the middleware for the tracked request leaves    *)
(* alone.                                                                  *)
aside == <<login, client, evals>>

----------------------------------------------------------------------------
(* Bounds *)

MaxTime == 3
MaxDirectives == 2

(* How deep refresh calls may nest before the runtime gives up *)
MaxNesting == 2

(* How many requests one browser sends *)
MaxRequests == 2

(* How many evaluations of the middleware are in flight at once *)
MaxConcurrent == 2

----------------------------------------------------------------------------
(* Static configuration: lib/config.ts *)

PROTECTED_PATHS == <<"/dashboard", "/profile", "/admin">>

PUBLIC_PATHS == <<"/">>

PROTECTED_API_ROUTES ==
    <<"/api/users/profile", "/api/users/settings", "/api/data", "/api/admin">>

PUBLIC_API_ROUTES ==
    <<"/api/users/login", "/api/users/refresh-token", "/api/health">>

ACCESS_TOKEN == "access_token"

REFRESH_TOKEN == "refresh_token"

RefreshPath == "/api/users/refresh-token"

LoginPath == "/"

ProfilePath == "/api/users/profile"

----------------------------------------------------------------------------
(* Inputs *)

Paths ==
    { "/", "/about", "/dashboard", "/dashboardx", "/dashboard/x", "/profile",
      "/admin", "/api/users/profile", "/api/users/profile/x",
      "/api/users/settings", "/api/data", "/api/admin", "/api/users/login",
      "/api/users/refresh-token", "/api/health", "/api/health/x" }

Methods == {"GET", "PUT"}

NoToken ==
    [present |-> FALSE, wellFormed |-> FALSE, sigOK |-> FALSE,
     hasExp |-> FALSE, exp |-> 0]

Garbage ==
    [present |-> TRUE, wellFormed |-> FALSE, sigOK |-> FALSE,
     hasExp |-> FALSE, exp |-> 0]

SignedTokens ==
    { [present |-> TRUE, wellFormed |-> TRUE, sigOK |-> s,
       hasExp |-> TRUE, exp |-> e] : s \in BOOLEAN, e \in 0..(MaxTime + 1) }
    \cup
    { [present |-> TRUE, wellFormed |-> TRUE, sigOK |-> s,
       hasExp |-> FALSE, exp |-> 0] : s \in BOOLEAN }

AccessCookies == {NoToken, Garbage} \cup SignedTokens

RefreshCookies == {"absent", "valid", "invalid"}

(* Body of the inbound request: none, or one that names a refresh token *)
Bodies == {"none", "refresh=other"}

(* A Set-Cookie directive as the issuing service sends it. *)
Directive(n, v) ==
    [name |-> n, value |-> v, httpOnly |-> TRUE, secure |-> FALSE,
     sameSite |-> "Lax", maxAge |-> 60, path |-> "/"]

(* The two credential cookies, and a third cookie whose value holds the    *)
(* character '='.                                                          *)
Directives ==
    { Directive(ACCESS_TOKEN, "jwtA"), Directive(REFRESH_TOKEN, "jwtR"),
      Directive("sessionid", "abc=") }

(* The Set-Cookie headers of one answer: up to MaxDirectives directives,   *)
(* no two of them for the same cookie name.                                *)
DirectiveLists ==
    UNION { { l \in [1..n -> Directives] :
                \A i, j \in 1..n : l[i].name = l[j].name => i = j } :
            n \in 0..MaxDirectives }

UpstreamStatuses == {200, 201, 401, 500}

(* What the issuing service can answer: an HTTP response, or no response   *)
(* at all (connection refused, reset, DNS failure).                        *)
UpstreamAnswers ==
    { [kind |-> "response", status |-> s, setCookie |-> d] :
        s \in UpstreamStatuses,
        d \in DirectiveLists }
    \cup {[kind |-> "error", status |-> 0, setCookie |-> <<>>]}

NoAnswer == [kind |-> "none", status |-> 0, setCookie |-> <<>>]

(* What a login form field can hold; "absent" is a field that is not in   *)
(* the body at all.                                                        *)
LoginFields == {"absent", "", "u"}

(* Content types of a login request; the body is in the announced format.  *)
ContentTypes ==
    {"application/json", "application/json; charset=utf-8",
     "application/x-www-form-urlencoded"}

(* The paths a browser asks for *)
SessionPaths == {"/", "/dashboard", "/profile", "/api/users/profile"}

(* The evaluations in flight, and what the requests evaluated at the same  *)
(* time hold and are answered.                                             *)
Evaluations == 1..MaxConcurrent

ConcPaths == {"/", "/dashboard"}

ConcTokens ==
    {NoToken, Garbage}
    \cup { t \in SignedTokens : t.sigOK /\ t.hasExp /\ t.exp \in {1, MaxTime} }

ConcAnswers ==
    { a \in UpstreamAnswers :
        /\ a.status \in {0, 200, 401}
        /\ a.setCookie \in {<<>>, <<Directive(ACCESS_TOKEN, "jwtA")>>} }

----------------------------------------------------------------------------
(* Helpers *)

(* String.prototype.startsWith *)
StartsWith(s, p) == Len(s) >= Len(p) /\ SubSeq(s, 1, Len(p)) = p

(* Array.prototype.some over a configuration list *)
SomePrefix(list, p) == \E i \in 1..Len(list) : StartsWith(p, list[i])

(* Response.ok of the fetch API: status in the range 200-299 *)
ResponseOk(status) == status >= 200 /\ status <= 299

(* axios default validateStatus: a 2xx answer resolves, anything else      *)
(* rejects, as does a request that got no answer.                          *)
AxiosResolves(ans) ==
    ans.kind = "response" /\ ans.status >= 200 /\ ans.status < 300

----------------------------------------------------------------------------
(* Credential verifier: middleware.ts, verifyJWTToken *)

(* jwtVerify of the jose library: the compact form is decoded, then the    *)
(* signature is checked against the secret, then the exp claim, when the   *)
(* payload has one, is checked against the clock (exp <= now is expired).  *)
(* The result is "ok" or the code of the error thrown.                     *)
jwtVerify(token, t) ==
    IF ~token.wellFormed THEN "ERR_JWS_INVALID"
    ELSE IF ~token.sigOK THEN "ERR_JWS_SIGNATURE_VERIFICATION_FAILED"
    ELSE IF token.hasExp /\ token.exp <= t THEN "ERR_JWT_EXPIRED"
    ELSE "ok"

(* Variant: the payload is never tested for its exp claim *)
PayloadExpFalsy_never(token) == FALSE

(* !payload.exp : the claim is absent, or it is the number 0 *)
PayloadExpFalsy(token) == ~token.hasExp \/ token.exp = 0

(* Variant: a token that expires within the next second counts as expired *)
verifyJWTToken_earlyExpiry(token, t) ==
    LET r == jwtVerify(token, t) IN
    IF r = "ok"
    THEN IF PayloadExpFalsy(token)
         THEN [valid |-> FALSE, expired |-> FALSE]
         ELSE IF token.exp < t + 2
              THEN [valid |-> FALSE, expired |-> TRUE]
              ELSE [valid |-> TRUE, expired |-> FALSE]
    ELSE IF r = "ERR_JWT_EXPIRED"
         THEN [valid |-> FALSE, expired |-> TRUE]
         ELSE [valid |-> FALSE, expired |-> FALSE]

(* Variant: only a token that expired within the last second is reported   *)
(* as expired, an older one as invalid                                     *)
verifyJWTToken_graceWindow(token, t) ==
    LET r == jwtVerify(token, t) IN
    IF r = "ok"
    THEN IF PayloadExpFalsy(token)
         THEN [valid |-> FALSE, expired |-> FALSE]
         ELSE IF token.exp < t
              THEN [valid |-> FALSE, expired |-> TRUE]
              ELSE [valid |-> TRUE, expired |-> FALSE]
    ELSE IF r = "ERR_JWT_EXPIRED" /\ t - token.exp <= 1
         THEN [valid |-> FALSE, expired |-> TRUE]
         ELSE [valid |-> FALSE, expired |-> FALSE]

(* Variant: the catch branch without the ERR_JWT_EXPIRED case of line 66 *)
verifyJWTToken_noExpiredCode(token, t) ==
    LET r == jwtVerify(token, t) IN
    IF r = "ok"
    THEN IF PayloadExpFalsy(token)
         THEN [valid |-> FALSE, expired |-> FALSE]
         ELSE IF token.exp < t
              THEN [valid |-> FALSE, expired |-> TRUE]
              ELSE [valid |-> TRUE, expired |-> FALSE]
    ELSE [valid |-> FALSE, expired |-> FALSE]

(* Variant: the expiry comparison of line 57 turned around *)
verifyJWTToken_flipped(token, t) ==
    LET r == jwtVerify(token, t) IN
    IF r = "ok"
    THEN IF PayloadExpFalsy(token)
         THEN [valid |-> FALSE, expired |-> FALSE]
         ELSE IF token.exp > t
              THEN [valid |-> FALSE, expired |-> TRUE]
              ELSE [valid |-> TRUE, expired |-> FALSE]
    ELSE IF r = "ERR_JWT_EXPIRED"
         THEN [valid |-> FALSE, expired |-> TRUE]
         ELSE [valid |-> FALSE, expired |-> FALSE]

verifyJWTToken(token, t) ==
    LET r == jwtVerify(token, t) IN
    IF r = "ok"
    THEN IF PayloadExpFalsy(token)
         THEN [valid |-> FALSE, expired |-> FALSE]
         ELSE IF token.exp < t
              THEN [valid |-> FALSE, expired |-> TRUE]
              ELSE [valid |-> TRUE, expired |-> FALSE]
    ELSE IF r = "ERR_JWT_EXPIRED"
         THEN [valid |-> FALSE, expired |-> TRUE]
         ELSE [valid |-> FALSE, expired |-> FALSE]

(* The three outcomes of the verifier, by name *)
VerifyOutcome(v) ==
    IF v.valid THEN "Valid" ELSE IF v.expired THEN "Expired" ELSE "Invalid"

----------------------------------------------------------------------------
(* Refresh proxy route: api/users/refresh-token/route.ts, POST *)

(* String.prototype.toLowerCase on the SameSite values *)
ToLowerCase(s) ==
    CASE s = "Lax" -> "lax"
      [] s = "Strict" -> "strict"
      [] s = "None" -> "none"
      [] OTHER -> s

(* Position of the first character c of s at or after position i, 0 when  *)
(* there is none: String.prototype.indexOf                                 *)
RECURSIVE IndexOf(_, _, _)
IndexOf(s, c, i) ==
    IF i > Len(s) THEN 0
    ELSE IF SubSeq(s, i, i) = c THEN i
    ELSE IndexOf(s, c, i + 1)

(* const [name, value] = cookieNameValue.split('='): the value is the part *)
(* of the text after the name up to the next '=', not the whole rest.      *)
SplitValue(v) ==
    LET k == IndexOf(v, "=", 1) IN
    IF k = 0 THEN v ELSE SubSeq(v, 1, k - 1)

(* Variant: the cookie is set with its options and without its value *)
ParseSetCookie_emptyValue(d) ==
    [name |-> d.name, value |-> "", httpOnly |-> d.httpOnly,
     secure |-> d.secure, sameSite |-> ToLowerCase(d.sameSite),
     maxAge |-> d.maxAge, path |-> d.path]

(* One Set-Cookie header of the issuing service, parsed into name, value   *)
(* and the five mapped options, and set on the proxy's response.           *)
ParseSetCookie(d) ==
    [name |-> d.name, value |-> SplitValue(d.value), httpOnly |-> d.httpOnly,
     secure |-> d.secure, sameSite |-> ToLowerCase(d.sameSite),
     maxAge |-> d.maxAge, path |-> d.path]

(* No request has been sent. *)
NoRequest ==
    [sent |-> FALSE, cookie |-> [access |-> NoToken, refresh |-> "absent"],
     body |-> "none"]

(* axios.post(apiUsers.refreshToken, {}, {headers: {Cookie: ...}}): the    *)
(* Cookie header of the request the route received, and an empty object as *)
(* body.                                                                   *)
UpstreamRequestOf(req) ==
    [sent |-> TRUE, cookie |-> req.cookie, body |-> "{}"]

NoProxyResp == [status |-> 0, setCookie |-> <<>>]

(* Variant: the status of the resolved call is not looked at *)
RefreshRouteResponse_noStatusCheck(ans) ==
    IF ~AxiosResolves(ans)
    THEN [status |-> 500, setCookie |-> <<>>]
    ELSE [status |-> 200,
          setCookie |-> [i \in 1..Len(ans.setCookie) |->
                            ParseSetCookie(ans.setCookie[i])]]

RefreshRouteResponse(ans) ==
    IF ~AxiosResolves(ans)
    THEN [status |-> 500, setCookie |-> <<>>]
    ELSE IF ans.status # 200
         THEN [status |-> ans.status, setCookie |-> <<>>]
         ELSE [status |-> 200,
               setCookie |-> [i \in 1..Len(ans.setCookie) |->
                                 ParseSetCookie(ans.setCookie[i])]]

----------------------------------------------------------------------------
(* Credential renewer: middleware.ts, attemptTokenRefresh *)

(* refreshResponse.headers.get('set-cookie'): every Set-Cookie header of   *)
(* the response joined into one value; <<>> stands for null / undefined.   *)
HeadersGetSetCookie(resp) == resp.setCookie

(* Variant: only the refresh_token cookie is sent on *)
FetchRequestOf_refreshOnly(cookie) ==
    [sent |-> TRUE, cookie |-> [cookie EXCEPT !.access = NoToken],
     body |-> "none"]

(* fetch(refreshUrl, {method: 'POST', headers: {Cookie: ...}}): the Cookie *)
(* header of the inbound request, and no body.                             *)
FetchRequestOf(cookie) ==
    [sent |-> TRUE, cookie |-> cookie, body |-> "none"]

NoRenew == [done |-> FALSE, success |-> FALSE, newCookies |-> <<>>]

(* The result once the fetch has resolved with the proxy's response *)
RefreshResultOf(resp) ==
    IF ResponseOk(resp.status)
    THEN [done |-> TRUE, success |-> TRUE,
          newCookies |-> HeadersGetSetCookie(resp)]
    ELSE [done |-> TRUE, success |-> FALSE, newCookies |-> <<>>]

(* Variant: the catch branch reports a success *)
RefreshCaught_success == [done |-> TRUE, success |-> TRUE, newCookies |-> <<>>]

(* The result when the fetch rejects: the catch branch *)
RefreshCaught == [done |-> TRUE, success |-> FALSE, newCookies |-> <<>>]

----------------------------------------------------------------------------
(* isAuthenticated and the decision of the middleware *)

NoAuth ==
    [done |-> FALSE, authenticated |-> FALSE, needsRefresh |-> FALSE,
     newCookies |-> <<>>]

Unauthenticated ==
    [done |-> TRUE, authenticated |-> FALSE, needsRefresh |-> FALSE,
     newCookies |-> <<>>]

AuthenticatedAsIs ==
    [done |-> TRUE, authenticated |-> TRUE, needsRefresh |-> FALSE,
     newCookies |-> <<>>]

(* Variant: a refresh is tried for every token that is not valid *)
TriesRefresh_anyFailure(v) == ~v.valid

(* if (expired) : the only branch that calls attemptTokenRefresh *)
TriesRefresh(v) == v.expired

(* What isAuthenticated returns after attemptTokenRefresh has returned r *)
AuthAfterRefresh(r) ==
    IF r.success
    THEN [done |-> TRUE, authenticated |-> TRUE, needsRefresh |-> TRUE,
          newCookies |-> r.newCookies]
    ELSE Unauthenticated

(* Variant: every path under /api is protected as well *)
isProtectedPage_apiToo(p) ==
    SomePrefix(PROTECTED_PATHS, p) \/ StartsWith(p, "/api")

(* Variant: the operands of startsWith exchanged *)
isProtectedPage_reversed(p) ==
    \E i \in 1..Len(PROTECTED_PATHS) : StartsWith(PROTECTED_PATHS[i], p)

(* Variant: the users endpoints are protected as well *)
isProtectedPage_usersToo(p) ==
    SomePrefix(PROTECTED_PATHS, p) \/ StartsWith(p, "/api/users")

(* PROTECTED_PATHS.some(protectedPath => path.startsWith(protectedPath)) *)
isProtectedPage(p) == SomePrefix(PROTECTED_PATHS, p)

NoResponse ==
    [kind |-> "none", status |-> 0, location |-> "", setCookie |-> <<>>]

(* NextResponse.next() *)
NextResponseNext ==
    [kind |-> "next", status |-> 200, location |-> "", setCookie |-> <<>>]

(* NextResponse.redirect(new URL('/', request.url)) *)
NextResponseRedirect(loc) ==
    [kind |-> "redirect", status |-> 307, location |-> loc,
     setCookie |-> <<>>]

(* Variant: a bare 401 in place of the redirect *)
DenyResponse_unauthorized ==
    [kind |-> "status", status |-> 401, location |-> "", setCookie |-> <<>>]

(* Variant: the redirect goes to the dashboard *)
DenyResponse_toDashboard == NextResponseRedirect("/dashboard")

(* The answer to a request that is not authenticated *)
DenyResponse == NextResponseRedirect(LoginPath)

(* The answer of the middleware once isAuthenticated has returned a *)
MiddlewareDecision(a) ==
    IF ~a.authenticated
    THEN DenyResponse
    ELSE IF a.needsRefresh /\ Len(a.newCookies) > 0
         THEN [NextResponseNext EXCEPT !.setCookie = <<a.newCookies>>]
         ELSE NextResponseNext

----------------------------------------------------------------------------
(* Protected profile route: api/users/profile/route.ts, GET and PUT *)

NoHandler == [name |-> "none", status |-> 0]

(* Status of the handler's response, given the backend's answer: 200 with  *)
(* the data, the backend's own status otherwise, 500 when the backend gave *)
(* no answer.                                                              *)
ProfileRouteStatus(ans) ==
    IF AxiosResolves(ans)
    THEN ans.status
    ELSE IF ans.kind = "response" THEN ans.status ELSE 500

----------------------------------------------------------------------------
(* State machine *)

(* request.headers.get('cookie'): the credential store of the inbound      *)
(* request                                                                 *)
InboundCookie == [access |-> access, refresh |-> refresh]

(* String.prototype.includes *)
Includes(s, sub) ==
    \E i \in 1..(Len(s) - Len(sub) + 1) : SubSeq(s, i, i + Len(sub) - 1) = sub

(* login/route.ts, lines 74-88: the two fields as the body parser gives    *)
(* them: a field absent from a JSON body reads undefined, one absent from  *)
(* a form body reads null.                                                 *)
LoginRequestOf(contentType, username, password) ==
    IF Includes(contentType, "application/json")
    THEN [username |-> IF username = "absent" THEN "undefined" ELSE username,
          password |-> IF password = "absent" THEN "undefined" ELSE password]
    ELSE [username |-> IF username = "absent" THEN "null" ELSE username,
          password |-> IF password = "absent" THEN "null" ELSE password]

(* !x for a string, undefined or null *)
Falsy(x) == x \in {"undefined", "null", ""}

(* Variant: the request is refused only when both fields are missing *)
LoginFieldsMissing_both(req) == Falsy(req.username) /\ Falsy(req.password)

(* login/route.ts, line 91: !loginRequest.username || !loginRequest.password *)
LoginFieldsMissing(req) == Falsy(req.username) \/ Falsy(req.password)

(* login/route.ts, lines 92-95 *)
LoginBadRequest ==
    [status |-> 400, user |-> FALSE, success |-> FALSE,
     error |-> "Username e password sono richiesti", setCookie |-> <<>>]

(* login/route.ts, lines 105-187: the response built from the issuing      *)
(* service's answer; its body is {user} on success and {error} otherwise,  *)
(* and never has a success field.                                          *)
LoginRouteResponse(ans) ==
    IF ~AxiosResolves(ans)
    THEN [status |-> 500, user |-> FALSE, success |-> FALSE,
          error |-> "Errore durante l'autenticazione", setCookie |-> <<>>]
    ELSE IF ans.status # 200
         THEN [status |-> ans.status, user |-> FALSE, success |-> FALSE,
               error |-> "Errore durante l'autenticazione: stato",
               setCookie |-> <<>>]
         ELSE [status |-> 200, user |-> TRUE, success |-> FALSE,
               error |-> "",
               setCookie |-> [i \in 1..Len(ans.setCookie) |->
                                 ParseSetCookie(ans.setCookie[i])]]

NoLoginResp ==
    [status |-> 0, user |-> FALSE, success |-> FALSE, error |-> "",
     setCookie |-> <<>>]

NoLogin ==
    [pc |-> "idle", origin |-> "none", contentType |-> "none",
     username |-> "absent", password |-> "absent", called |-> FALSE,
     upstream |-> NoAnswer, resp |-> NoLoginResp, error |-> "",
     navigatedTo |-> ""]

NoLast ==
    [path |-> "", verify |-> "none", kind |-> "none", location |-> "",
     renewed |-> FALSE]

NoClient ==
    [stage |-> "none", count |-> 0, access |-> NoToken, refresh |-> "absent",
     last |-> NoLast, sameToken |-> FALSE, applied |-> FALSE,
     issuedExp |-> 0]

(* An evaluation that has not started: the locals of middleware,           *)
(* isAuthenticated and attemptTokenRefresh do not exist.                   *)
IdleEval ==
    [pc |-> "idle", path |-> "/", access |-> NoToken, verifiedAt |-> 0,
     verify |-> "none", upstream |-> NoAnswer, proxyResp |-> NoProxyResp,
     response |-> NoResponse]

NoEvals == [i \in Evaluations |-> IdleEval]

Init ==
    /\ pc = "idle"
    /\ now = 0
    /\ path = "/"
    /\ method = "GET"
    /\ access = NoToken
    /\ refresh = "absent"
    /\ verifyResult = "none"
    /\ verifyCalls = 0
    /\ renewCalls = 0
    /\ upstream = NoAnswer
    /\ proxyResp = NoProxyResp
    /\ renewResult = NoRenew
    /\ authResult = NoAuth
    /\ response = NoResponse
    /\ handler = NoHandler
    /\ receivedAt = 0
    /\ body = "none"
    /\ fetchReq = NoRequest
    /\ upstreamReq = NoRequest
    /\ login = NoLogin
    /\ client = NoClient
    /\ evals = NoEvals

(* The clock advances. *)
Tick ==
    /\ now < MaxTime
    /\ now' = now + 1
    /\ UNCHANGED <<pc, path, method, access, refresh, verifyResult,
                   verifyCalls, renewCalls, upstream, proxyResp, renewResult,
                   authResult, response, handler>>
    /\ UNCHANGED <<receivedAt, body, fetchReq, upstreamReq>>
    /\ UNCHANGED aside

(* A request arrives at the middleware. *)
Receive ==
    /\ pc = "idle"
    /\ \E p \in Paths, m \in Methods, a \in AccessCookies,
          r \in RefreshCookies, b \in Bodies :
          /\ path' = p
          /\ method' = m
          /\ access' = a
          /\ refresh' = r
          /\ body' = b
    /\ pc' = "middleware"
    /\ receivedAt' = now
    /\ UNCHANGED <<fetchReq, upstreamReq>>
    /\ UNCHANGED <<now, verifyResult, verifyCalls, renewCalls, upstream,
                   proxyResp, renewResult, authResult, response, handler>>
    /\ UNCHANGED aside

(* middleware, lines 214-228: the path is not a protected page. *)
MiddlewarePublic ==
    /\ pc = "middleware"
    /\ ~isProtectedPage(path)
    /\ response' = NextResponseNext
    /\ pc' = "responded"
    /\ UNCHANGED <<now, path, method, access, refresh, verifyResult,
                   verifyCalls, renewCalls, upstream, proxyResp, renewResult,
                   authResult, handler>>
    /\ UNCHANGED <<receivedAt, body, fetchReq, upstreamReq>>
    /\ UNCHANGED aside

(* middleware, lines 230-233, and isAuthenticated, lines 153-158: the path *)
(* is a protected page and the request has no access_token cookie.         *)
MiddlewareNoToken ==
    /\ pc = "middleware"
    /\ isProtectedPage(path)
    /\ ~access.present
    /\ verifyResult' = "Missing"
    /\ authResult' = Unauthenticated
    /\ response' = MiddlewareDecision(Unauthenticated)
    /\ pc' = "responded"
    /\ UNCHANGED <<now, path, method, access, refresh, verifyCalls,
                   renewCalls, upstream, proxyResp, renewResult, handler>>
    /\ UNCHANGED <<receivedAt, body, fetchReq, upstreamReq>>
    /\ UNCHANGED aside

(* isAuthenticated, lines 160-181: the token is verified; a valid one      *)
(* authenticates, an expired one starts the refresh call, any other one    *)
(* does not authenticate.                                                  *)
MiddlewareVerify ==
    /\ pc = "middleware"
    /\ isProtectedPage(path)
    /\ access.present
    /\ LET v == verifyJWTToken(access, now) IN
         /\ verifyResult' = VerifyOutcome(v)
         /\ verifyCalls' = verifyCalls + 1
         /\ IF v.valid
            THEN /\ authResult' = AuthenticatedAsIs
                 /\ response' = MiddlewareDecision(AuthenticatedAsIs)
                 /\ pc' = "responded"
                 /\ UNCHANGED <<renewCalls, fetchReq>>
            ELSE IF TriesRefresh(v)
                 THEN /\ renewCalls' = renewCalls + 1
                      /\ fetchReq' = FetchRequestOf(InboundCookie)
                      /\ pc' = "fetch"
                      /\ UNCHANGED <<authResult, response>>
                 ELSE /\ authResult' = Unauthenticated
                      /\ response' = MiddlewareDecision(Unauthenticated)
                      /\ pc' = "responded"
                      /\ UNCHANGED <<renewCalls, fetchReq>>
    /\ UNCHANGED <<now, path, method, access, refresh, upstream, proxyResp,
                   renewResult, handler>>
    /\ UNCHANGED <<receivedAt, body, upstreamReq>>
    /\ UNCHANGED aside

(* config.matcher, lines 275-287: the middleware runs on every path but    *)
(* those under _next/static, _next/image and favicon.ico.                  *)
MatcherMatches(p) ==
    /\ StartsWith(p, "/")
    /\ ~StartsWith(p, "/_next/static")
    /\ ~StartsWith(p, "/_next/image")
    /\ ~StartsWith(p, "/favicon.ico")

(* The fetch of attemptTokenRefresh, lines 96-108, is a request to this    *)
(* same server, so the middleware of lines 213-258 runs on it before the   *)
(* refresh route does.  A path that is not protected goes on to the route  *)
(* (lines 224-228).  A protected one would be authenticated with the       *)
(* forwarded cookies (lines 233, 151-182): a valid token goes on, an       *)
(* expired one starts a further refresh call, any other is answered with   *)
(* the redirect, which the waiting fetch receives in place of the route's  *)
(* response.                                                               *)
SubRequestMiddleware ==
    /\ pc = "fetch"
    /\ IF ~(MatcherMatches(RefreshPath) /\ isProtectedPage(RefreshPath))
       THEN /\ pc' = "route"
            /\ UNCHANGED <<verifyCalls, renewCalls, proxyResp>>
       ELSE /\ renewCalls < MaxNesting
            /\ IF ~fetchReq.cookie.access.present
               THEN /\ proxyResp' = [status |-> 307, setCookie |-> <<>>]
                    /\ pc' = "fetched"
                    /\ UNCHANGED <<verifyCalls, renewCalls>>
               ELSE LET v == verifyJWTToken(fetchReq.cookie.access, now) IN
                      /\ verifyCalls' = verifyCalls + 1
                      /\ IF v.valid
                         THEN /\ pc' = "route"
                              /\ UNCHANGED <<renewCalls, proxyResp>>
                         ELSE IF TriesRefresh(v)
                              THEN /\ renewCalls' = renewCalls + 1
                                   /\ pc' = "fetch"
                                   /\ UNCHANGED proxyResp
                              ELSE /\ proxyResp' = [status |-> 307,
                                                    setCookie |-> <<>>]
                                   /\ pc' = "fetched"
                                   /\ UNCHANGED renewCalls
    /\ UNCHANGED <<now, path, method, access, refresh, verifyResult,
                   upstream, renewResult, authResult, response, handler>>
    /\ UNCHANGED <<receivedAt, body, fetchReq, upstreamReq>>
    /\ UNCHANGED aside

(* The refresh proxy route handles the fetch of attemptTokenRefresh: it    *)
(* calls the issuing service and builds its response from the answer.      *)
RefreshRoutePOST ==
    /\ pc = "route"
    /\ \E ans \in UpstreamAnswers :
          /\ upstream' = ans
          /\ proxyResp' = RefreshRouteResponse(ans)
    /\ upstreamReq' = UpstreamRequestOf(fetchReq)
    /\ pc' = "fetched"
    /\ UNCHANGED <<now, path, method, access, refresh, verifyResult,
                   verifyCalls, renewCalls, renewResult, authResult,
                   response, handler>>
    /\ UNCHANGED <<receivedAt, body, fetchReq>>
    /\ UNCHANGED aside

(* Variant: a failed refresh is tried a second time *)
MiddlewareResume_retry ==
    /\ pc = "fetched"
    /\ LET r == RefreshResultOf(proxyResp)
           a == AuthAfterRefresh(r)
       IN IF ~r.success /\ renewCalls < 2
          THEN /\ renewCalls' = renewCalls + 1
               /\ pc' = "fetch"
               /\ UNCHANGED <<renewResult, authResult, response>>
          ELSE /\ renewResult' = r
               /\ authResult' = a
               /\ response' = MiddlewareDecision(a)
               /\ pc' = "responded"
               /\ UNCHANGED renewCalls
    /\ UNCHANGED <<now, path, method, access, refresh, verifyResult,
                   verifyCalls, upstream, proxyResp, handler>>
    /\ UNCHANGED <<receivedAt, body, fetchReq, upstreamReq>>
    /\ UNCHANGED aside

(* attemptTokenRefresh, lines 110-120, then isAuthenticated, lines         *)
(* 172-181, then middleware, lines 235-257: the fetch has resolved.        *)
MiddlewareResume ==
    /\ pc = "fetched"
    /\ LET r == RefreshResultOf(proxyResp)
           a == AuthAfterRefresh(r)
       IN /\ renewResult' = r
          /\ authResult' = a
          /\ response' = MiddlewareDecision(a)
    /\ pc' = "responded"
    /\ UNCHANGED <<now, path, method, access, refresh, verifyResult,
                   verifyCalls, renewCalls, upstream, proxyResp, handler>>
    /\ UNCHANGED <<receivedAt, body, fetchReq, upstreamReq>>
    /\ UNCHANGED aside

(* Variant: the rejection is not caught and leaves the middleware *)
FetchRejects_uncaught ==
    /\ pc \in {"fetch", "route"}
    /\ response' = [kind |-> "fault", status |-> 500, location |-> "",
                    setCookie |-> <<>>]
    /\ pc' = "responded"
    /\ UNCHANGED <<now, path, method, access, refresh, verifyResult,
                   verifyCalls, renewCalls, upstream, proxyResp, handler>>
    /\ UNCHANGED <<renewResult, authResult>>
    /\ UNCHANGED <<receivedAt, body, fetchReq, upstreamReq>>
    /\ UNCHANGED aside

(* attemptTokenRefresh, lines 121-124: the fetch rejected (the refresh     *)
(* route could not be reached); the error is caught.                       *)
FetchRejects ==
    /\ pc \in {"fetch", "route"}
    /\ LET a == AuthAfterRefresh(RefreshCaught)
       IN /\ renewResult' = RefreshCaught
          /\ authResult' = a
          /\ response' = MiddlewareDecision(a)
    /\ pc' = "responded"
    /\ UNCHANGED <<now, path, method, access, refresh, verifyResult,
                   verifyCalls, renewCalls, upstream, proxyResp, handler>>
    /\ UNCHANGED <<receivedAt, body, fetchReq, upstreamReq>>
    /\ UNCHANGED aside

(* The middleware answered next() and the request is for the profile       *)
(* route: its GET handler runs and proxies the call to the backend.        *)
ProfileGET ==
    /\ pc = "responded"
    /\ response.kind = "next"
    /\ path = ProfilePath
    /\ method = "GET"
    /\ \E ans \in UpstreamAnswers :
          handler' = [name |-> "GET", status |-> ProfileRouteStatus(ans)]
    /\ pc' = "handled"
    /\ UNCHANGED <<now, path, method, access, refresh, verifyResult,
                   verifyCalls, renewCalls, upstream, proxyResp, renewResult,
                   authResult, response>>
    /\ UNCHANGED <<receivedAt, body, fetchReq, upstreamReq>>
    /\ UNCHANGED aside

(* The same for the PUT handler of the profile route. *)
ProfilePUT ==
    /\ pc = "responded"
    /\ response.kind = "next"
    /\ path = ProfilePath
    /\ method = "PUT"
    /\ \E ans \in UpstreamAnswers :
          handler' = [name |-> "PUT", status |-> ProfileRouteStatus(ans)]
    /\ pc' = "handled"
    /\ UNCHANGED <<now, path, method, access, refresh, verifyResult,
                   verifyCalls, renewCalls, upstream, proxyResp, renewResult,
                   authResult, response>>
    /\ UNCHANGED <<receivedAt, body, fetchReq, upstreamReq>>
    /\ UNCHANGED aside

(* The middleware answered next() and the request is for any other page or *)
(* route: it reaches that page or route.                                   *)
Downstream ==
    /\ pc = "responded"
    /\ response.kind = "next"
    /\ path # ProfilePath
    /\ handler' = [name |-> "other", status |-> 200]
    /\ pc' = "handled"
    /\ UNCHANGED <<now, path, method, access, refresh, verifyResult,
                   verifyCalls, renewCalls, upstream, proxyResp, renewResult,
                   authResult, response>>
    /\ UNCHANGED <<receivedAt, body, fetchReq, upstreamReq>>
    /\ UNCHANGED aside

(* The response has been sent: nothing of the evaluation is kept. *)
EndRequest ==
    /\ \/ pc = "handled"
       \/ pc = "responded" /\ response.kind # "next"
    /\ pc' = "idle"
    /\ path' = "/"
    /\ method' = "GET"
    /\ access' = NoToken
    /\ refresh' = "absent"
    /\ verifyResult' = "none"
    /\ verifyCalls' = 0
    /\ renewCalls' = 0
    /\ upstream' = NoAnswer
    /\ proxyResp' = NoProxyResp
    /\ renewResult' = NoRenew
    /\ authResult' = NoAuth
    /\ response' = NoResponse
    /\ handler' = NoHandler
    /\ receivedAt' = 0
    /\ body' = "none"
    /\ fetchReq' = NoRequest
    /\ upstreamReq' = NoRequest
    /\ UNCHANGED now
    /\ UNCHANGED aside

Next ==
    \/ Tick
    \/ Receive
    \/ MiddlewarePublic
    \/ MiddlewareNoToken
    \/ MiddlewareVerify
    \/ SubRequestMiddleware
    \/ RefreshRoutePOST
    \/ MiddlewareResume
    \/ FetchRejects
    \/ ProfileGET
    \/ ProfilePUT
    \/ Downstream
    \/ EndRequest

Spec == Init /\ [][Next]_vars

(* The steps the frontend takes on its own are taken once they can be.     *)
(* The arrival of a request, the clock, the completion of the refresh      *)
(* route (which waits for the issuing service: neither the fetch of        *)
(* part_004:99-108 nor the axios call of part_000:233-240 sets a timeout   *)
(* or an abort signal) and a rejection of the fetch are not in its hands.  *)
GateFairness ==
    /\ WF_vars(MiddlewarePublic)
    /\ WF_vars(MiddlewareNoToken)
    /\ WF_vars(MiddlewareVerify)
    /\ WF_vars(SubRequestMiddleware)
    /\ WF_vars(MiddlewareResume)
    /\ WF_vars(ProfileGET)
    /\ WF_vars(ProfilePUT)
    /\ WF_vars(Downstream)
    /\ WF_vars(EndRequest)

FairSpec == Spec /\ GateFairness

(* The same, and the refresh route completes: the issuing service answers  *)
(* the axios call of part_000:233-240 or the call throws.                  *)
AnsweringSpec == FairSpec /\ WF_vars(RefreshRoutePOST)

----------------------------------------------------------------------------
(* Login: app/page.tsx, handleSubmit, and app/api/users/login/route.ts *)

(* The variables of the middleware's evaluation *)
gate == <<pc, now, path, method, access, refresh, verifyResult, verifyCalls,
          renewCalls, upstream, proxyResp, renewResult, authResult, response,
          handler, receivedAt, body, fetchReq, upstreamReq>>

(* login page, handleSubmit, lines 89-105: the form is submitted; the page *)
(* clears its error and posts the two fields as JSON.                      *)
HandleSubmit ==
    /\ login.pc = "idle"
    /\ \E u \in LoginFields \ {"absent"}, p \in LoginFields \ {"absent"} :
          login' = [NoLogin EXCEPT !.pc = "sent", !.origin = "page",
                                   !.contentType = "application/json",
                                   !.username = u, !.password = p]
    /\ UNCHANGED <<gate, client, evals>>

(* Any other client posts to the login route. *)
LoginReceive ==
    /\ login.pc = "idle"
    /\ \E ct \in ContentTypes, u \in LoginFields, p \in LoginFields :
          login' = [NoLogin EXCEPT !.pc = "sent", !.origin = "client",
                                   !.contentType = ct,
                                   !.username = u, !.password = p]
    /\ UNCHANGED <<gate, client, evals>>

(* login/route.ts, POST, lines 68-187 *)
LoginRoutePOST ==
    /\ login.pc = "sent"
    /\ LET req == LoginRequestOf(login.contentType, login.username,
                                 login.password)
       IN IF LoginFieldsMissing(req)
          THEN login' = [login EXCEPT !.pc = "answered",
                                      !.resp = LoginBadRequest]
          ELSE \E ans \in UpstreamAnswers :
                  login' = [login EXCEPT !.pc = "answered",
                                         !.called = TRUE,
                                         !.upstream = ans,
                                         !.resp = LoginRouteResponse(ans)]
    /\ UNCHANGED <<gate, client, evals>>

(* login page, handleSubmit, lines 107-115: the fetch resolved *)
HandleSubmitResume ==
    /\ login.pc = "answered"
    /\ login.origin = "page"
    /\ IF ResponseOk(login.resp.status) /\ login.resp.success
       THEN login' = [login EXCEPT !.pc = "shown",
                                   !.navigatedTo = "/dashboard"]
       ELSE login' = [login EXCEPT !.pc = "shown",
                                   !.error = IF login.resp.error # ""
                                             THEN login.resp.error
                                             ELSE "Errore durante il login"]
    /\ UNCHANGED <<gate, client, evals>>

(* login page, handleSubmit, lines 116-118: the fetch rejected *)
HandleSubmitCatch ==
    /\ login.pc = "sent"
    /\ login.origin = "page"
    /\ login' = [login EXCEPT !.pc = "shown",
                              !.error = "Errore di connessione. Riprova."]
    /\ UNCHANGED <<gate, client, evals>>

(* The login is over. *)
LoginEnd ==
    /\ \/ login.pc = "shown"
       \/ login.pc = "answered" /\ login.origin = "client"
    /\ login' = NoLogin
    /\ UNCHANGED <<gate, client, evals>>

LoginNext ==
    \/ HandleSubmit
    \/ LoginReceive
    \/ LoginRoutePOST
    \/ HandleSubmitResume
    \/ HandleSubmitCatch
    \/ LoginEnd

LoginSpec == Init /\ [][LoginNext]_vars

----------------------------------------------------------------------------
(* A browser that keeps the two cookies, sends them with each request to   *)
(* the middleware and applies the Set-Cookie directives of each response.  *)

(* The cookie value as the browser sends it back: the access token the     *)
(* issuing service signed, with expiry claim e, if the value arrived       *)
(* whole, and a string that is no token otherwise.                         *)
TokenOfValue(v, e) ==
    IF v = "jwtA"
    THEN [present |-> TRUE, wellFormed |-> TRUE, sigOK |-> TRUE,
          hasExp |-> TRUE, exp |-> e]
    ELSE Garbage

RefreshOfValue(v) == IF v = "jwtR" THEN "valid" ELSE "invalid"

(* The directives of the middleware's response that set the named cookie *)
DirectivesFor(n) ==
    { d \in UNION { { response.setCookie[h][j] :
                        j \in 1..Len(response.setCookie[h]) } :
                    h \in 1..Len(response.setCookie) } : d.name = n }

(* The browser starts with some cookies. *)
ClientOpen ==
    /\ client.stage = "none"
    /\ \E a \in AccessCookies, r \in RefreshCookies :
          client' = [NoClient EXCEPT !.stage = "ready", !.access = a,
                                    !.refresh = r]
    /\ UNCHANGED <<gate, login, evals>>

(* The browser sends a request with its cookies: middleware, lines         *)
(* 213-214.                                                                *)
ClientSend ==
    /\ client.stage = "ready"
    /\ client.count < MaxRequests
    /\ pc = "idle"
    /\ \E p \in SessionPaths : path' = p
    /\ method' = "GET"
    /\ access' = client.access
    /\ refresh' = client.refresh
    /\ body' = "none"
    /\ pc' = "middleware"
    /\ receivedAt' = now
    /\ client' = [client EXCEPT !.stage = "waiting", !.count = @ + 1]
    /\ UNCHANGED <<fetchReq, upstreamReq>>
    /\ UNCHANGED <<now, verifyResult, verifyCalls, renewCalls, upstream,
                   proxyResp, renewResult, authResult, response, handler>>
    /\ UNCHANGED <<login, evals>>

(* The browser receives the response, applies its Set-Cookie directives    *)
(* and remembers what it asked for and what it got; the evaluation is      *)
(* over.  A new access token carries an expiry claim that lies ahead.      *)
ClientReceive ==
    /\ client.stage = "waiting"
    /\ pc = "responded"
    /\ LET acc == DirectivesFor(ACCESS_TOKEN)
           ref == DirectivesFor(REFRESH_TOKEN)
       IN \E e \in IF acc = {} THEN {0} ELSE (now + 1)..(MaxTime + 1) :
            client' =
              [client EXCEPT
                 !.stage = "ready",
                 !.access = IF acc = {} THEN @
                            ELSE TokenOfValue((CHOOSE d \in acc : TRUE).value,
                                              e),
                 !.refresh = IF ref = {} THEN @
                             ELSE RefreshOfValue(
                                      (CHOOSE d \in ref : TRUE).value),
                 !.last = [path |-> path, verify |-> verifyResult,
                           kind |-> response.kind,
                           location |-> response.location,
                           renewed |-> renewResult.done
                                       /\ renewResult.success],
                 !.sameToken = (acc = {}),
                 !.applied = (acc # {}),
                 !.issuedExp = e]
    /\ pc' = "idle"
    /\ path' = "/"
    /\ method' = "GET"
    /\ access' = NoToken
    /\ refresh' = "absent"
    /\ verifyResult' = "none"
    /\ verifyCalls' = 0
    /\ renewCalls' = 0
    /\ upstream' = NoAnswer
    /\ proxyResp' = NoProxyResp
    /\ renewResult' = NoRenew
    /\ authResult' = NoAuth
    /\ response' = NoResponse
    /\ handler' = NoHandler
    /\ receivedAt' = 0
    /\ body' = "none"
    /\ fetchReq' = NoRequest
    /\ upstreamReq' = NoRequest
    /\ UNCHANGED <<now, login, evals>>

SessionNext ==
    \/ Tick
    \/ ClientOpen
    \/ ClientSend
    \/ MiddlewarePublic
    \/ MiddlewareNoToken
    \/ MiddlewareVerify
    \/ SubRequestMiddleware
    \/ RefreshRoutePOST
    \/ MiddlewareResume
    \/ FetchRejects
    \/ ClientReceive

SessionSpec == Init /\ [][SessionNext]_vars

----------------------------------------------------------------------------
(* Several requests evaluated at once: each call of middleware has its own *)
(* locals; the clock and the configuration are all the calls share.        *)

(* A request arrives: middleware, lines 213-214. *)
EvalReceive(i) ==
    /\ evals[i].pc = "idle"
    /\ \E p \in ConcPaths, a \in ConcTokens :
          evals' = [evals EXCEPT ![i] = [IdleEval EXCEPT !.pc = "middleware",
                                                        !.path = p,
                                                        !.access = a]]
    /\ UNCHANGED <<gate, login, client>>

(* middleware, lines 214-242, with isAuthenticated, lines 151-170, up to   *)
(* the answer or to the fetch of attemptTokenRefresh.                      *)
EvalMiddleware(i) ==
    /\ evals[i].pc = "middleware"
    /\ LET e == evals[i]
           v == verifyJWTToken(e.access, now)
       IN evals' = [evals EXCEPT ![i] =
            IF ~isProtectedPage(e.path)
            THEN [e EXCEPT !.pc = "responded", !.response = NextResponseNext]
            ELSE IF ~e.access.present
            THEN [e EXCEPT !.pc = "responded", !.verify = "Missing",
                           !.response = MiddlewareDecision(Unauthenticated)]
            ELSE IF v.valid
            THEN [e EXCEPT !.pc = "responded", !.verify = VerifyOutcome(v),
                           !.verifiedAt = now,
                           !.response = MiddlewareDecision(AuthenticatedAsIs)]
            ELSE IF TriesRefresh(v)
            THEN [e EXCEPT !.pc = "fetch", !.verify = VerifyOutcome(v),
                           !.verifiedAt = now]
            ELSE [e EXCEPT !.pc = "responded", !.verify = VerifyOutcome(v),
                           !.verifiedAt = now,
                           !.response = MiddlewareDecision(Unauthenticated)]]
    /\ UNCHANGED <<gate, login, client>>

(* The refresh route answers the fetch of this evaluation: part_000,       *)
(* lines 230-300.                                                          *)
EvalRefreshRoute(i) ==
    /\ evals[i].pc = "fetch"
    /\ \E ans \in ConcAnswers :
          evals' = [evals EXCEPT ![i] =
                      [@ EXCEPT !.pc = "fetched", !.upstream = ans,
                                !.proxyResp = RefreshRouteResponse(ans)]]
    /\ UNCHANGED <<gate, login, client>>

(* Variant: the response of the refresh route is kept in a variable of the *)
(* module, and a resuming evaluation takes the one another evaluation left *)
EvalResume_shared(i) ==
    /\ evals[i].pc = "fetched"
    /\ LET others == { j \in Evaluations \ {i} :
                          evals[j].proxyResp # NoProxyResp }
           resp == IF others = {} THEN evals[i].proxyResp
                   ELSE evals[CHOOSE j \in others : TRUE].proxyResp
       IN evals' = [evals EXCEPT ![i] =
                      [@ EXCEPT !.pc = "responded",
                                !.response = MiddlewareDecision(
                                    AuthAfterRefresh(RefreshResultOf(resp)))]]
    /\ UNCHANGED <<gate, login, client>>

(* attemptTokenRefresh, lines 110-120, isAuthenticated, lines 172-181, and *)
(* middleware, lines 235-257: the fetch of this evaluation has resolved.   *)
EvalResume(i) ==
    /\ evals[i].pc = "fetched"
    /\ evals' = [evals EXCEPT ![i] =
                   [@ EXCEPT !.pc = "responded",
                             !.response = MiddlewareDecision(
                                 AuthAfterRefresh(
                                     RefreshResultOf(evals[i].proxyResp)))]]
    /\ UNCHANGED <<gate, login, client>>

(* attemptTokenRefresh, lines 121-124: the fetch of this evaluation        *)
(* rejected.                                                               *)
EvalFetchRejects(i) ==
    /\ evals[i].pc = "fetch"
    /\ evals' = [evals EXCEPT ![i] =
                   [@ EXCEPT !.pc = "responded",
                             !.upstream = [kind |-> "rejected", status |-> 0,
                                           setCookie |-> <<>>],
                             !.response = MiddlewareDecision(
                                 AuthAfterRefresh(RefreshCaught))]]
    /\ UNCHANGED <<gate, login, client>>

(* The response is sent and the call of middleware returns: its locals are *)
(* gone.                                                                   *)
EvalEnd(i) ==
    /\ evals[i].pc = "responded"
    /\ evals' = [evals EXCEPT ![i] = IdleEval]
    /\ UNCHANGED <<gate, login, client>>

ConcNext ==
    \/ Tick
    \/ \E i \in Evaluations : EvalReceive(i)
    \/ \E i \in Evaluations : EvalMiddleware(i)
    \/ \E i \in Evaluations : EvalRefreshRoute(i)
    \/ \E i \in Evaluations : EvalResume(i)
    \/ \E i \in Evaluations : EvalFetchRejects(i)
    \/ \E i \in Evaluations : EvalEnd(i)

ConcSpec == Init /\ [][ConcNext]_vars

----------------------------------------------------------------------------
(* Vocabulary of the properties *)

(* The middleware has answered. *)
Answered == pc \in {"responded", "handled"}

Admitted == Answered /\ response.kind = "next"

Redirected == Answered /\ response.kind = "redirect"

(* The path starts with an entry of the protected-page list. *)
ProtectedPagePath(p) == SomePrefix(PROTECTED_PATHS, p)

(* The path starts with an entry of the protected-endpoint list and is not *)
(* on the public allow-list.                                               *)
ProtectedEndpointPath(p) ==
    SomePrefix(PROTECTED_API_ROUTES, p) /\ ~SomePrefix(PUBLIC_API_ROUTES, p)

ProtectedPath(p) == ProtectedPagePath(p) \/ ProtectedEndpointPath(p)

(* The access credential is well formed and signed with the shared secret. *)
AccessSigned == access.present /\ access.wellFormed /\ access.sigOK

(* ... and its expiry claim lies in the future. *)
AccessUnexpired == AccessSigned /\ access.hasExp /\ now < access.exp

(* ... and its expiry claim had passed when the request arrived. *)
AccessExpired == AccessSigned /\ access.hasExp /\ access.exp <= receivedAt

(* No access credential, a malformed one, or a wrongly signed one. *)
AccessUnusable == ~access.present \/ ~access.wellFormed \/ ~access.sigOK

RenewSucceeded == renewResult.done /\ renewResult.success

RenewFailed == renewResult.done /\ ~renewResult.success

----------------------------------------------------------------------------
(* Properties *)

(* C1: a request for a protected path (page or endpoint) is admitted only  *)
(* if its access credential verified as Valid, or verified as Expired and  *)
(* the renewal of that request succeeded.                                  *)
C1_AdmittedOnlyIfVerifiedOrRenewed ==
    (Admitted /\ ProtectedPath(path))
        => \/ verifyResult = "Valid"
           \/ verifyResult = "Expired" /\ RenewSucceeded

(* C2: a request for a protected endpoint whose access credential is       *)
(* missing, Invalid, or Expired with a failed renewal is answered with a   *)
(* 401 status, never with a redirect and never admitted.                   *)
C2_EndpointDeniedWith401 ==
    (/\ Answered
     /\ ProtectedEndpointPath(path)
     /\ \/ AccessUnusable
        \/ AccessSigned /\ ~access.hasExp
        \/ AccessExpired /\ ~RenewSucceeded)
        => response.kind = "status" /\ response.status = 401

(* C3: a request for a protected page whose access credential is missing,  *)
(* Invalid, or Expired with a failed renewal is answered with a redirect   *)
(* to the login path; it is not admitted, no handler runs, and the answer  *)
(* is not a bare status.                                                   *)
C3_PageDeniedWithRedirect ==
    (/\ Answered
     /\ ProtectedPagePath(path)
     /\ \/ verifyResult \in {"Missing", "Invalid"}
        \/ verifyResult = "Expired" /\ RenewFailed)
        => /\ response = NextResponseRedirect(LoginPath)
           /\ handler = NoHandler

C3_Witness ==
    /\ Answered
    /\ ProtectedPagePath(path)
    /\ verifyResult = "Expired"
    /\ RenewFailed
    /\ upstream.kind = "response"
    /\ upstream.status = 401
    /\ Redirected

(* C4: a request for a path that starts with no protected prefix is        *)
(* admitted whatever its credentials, and neither the verifier nor the     *)
(* renewer runs for it.                                                    *)
C4_UnprotectedAdmittedWithoutAuthWork ==
    (~ProtectedPath(path) /\ pc # "idle")
        => /\ verifyCalls = 0
           /\ renewCalls = 0
           /\ verifyResult = "none"
           /\ ~renewResult.done
           /\ Answered => response = NextResponseNext

C4_Witness ==
    /\ Admitted
    /\ path = "/about"
    /\ AccessExpired
    /\ refresh = "invalid"
    /\ verifyCalls = 0

(* C5: a request for a protected path with a well-formed, correctly signed *)
(* and unexpired access credential is admitted, and no renewal call is     *)
(* made during its evaluation, whatever the renewal credential.            *)
C5_ValidAdmittedWithoutRenewal ==
    (ProtectedPath(path) /\ AccessUnexpired /\ pc # "idle")
        => /\ renewCalls = 0
           /\ ~renewResult.done
           /\ pc \notin {"fetch", "route", "fetched"}
           /\ Answered => response = NextResponseNext

C5_Witness ==
    /\ Admitted
    /\ ProtectedPagePath(path)
    /\ AccessUnexpired
    /\ verifyResult = "Valid"
    /\ refresh = "absent"

(* C6: a protected page admitted after a successful renewal always has the *)
(* renewed credentials attached to its response, also when the renewal     *)
(* response carried none.                                                  *)
C6_RenewedCredentialsAlwaysAttached ==
    (/\ Answered
     /\ ProtectedPagePath(path)
     /\ verifyResult = "Expired"
     /\ RenewSucceeded)
        => Admitted /\ Len(response.setCookie) > 0

(* C7: for a protected endpoint requested with an Expired access           *)
(* credential the gate performs a renewal, and when the renewal succeeds   *)
(* the request is admitted with the renewed credentials attached.          *)
C7_EndpointExpiredIsRenewed ==
    (Answered /\ ProtectedEndpointPath(path) /\ AccessExpired)
        => /\ renewCalls >= 1
           /\ RenewSucceeded => Admitted /\ Len(response.setCookie) > 0

(* C8: the GET and PUT handlers of the profile route run only for a        *)
(* request whose access credential the gate verified as Valid or renewed   *)
(* successfully earlier in the same request.                               *)
C8_ProfileHandlerOnlyIfAuthenticated ==
    handler.name \in {"GET", "PUT"}
        => verifyResult = "Valid" \/ RenewSucceeded

C10_Only200LeadsToSuccess ==
    (renewResult.done /\ ~(upstream.kind = "response" /\ upstream.status = 200))
        => ~renewResult.success /\ ~Admitted

(* C11: one evaluation makes at most one renewal call; once the renewal    *)
(* has failed no further call is made and the evaluation has gone straight *)
(* to the denial: the answer is the redirect and no handler runs.          *)
C11_AtMostOneRenewalThenDenial ==
    /\ renewCalls <= 1
    /\ renewResult.done => renewCalls = 1
    /\ RenewFailed
           => /\ Answered
              /\ pc \notin {"fetch", "route", "fetched"}
              /\ ~authResult.authenticated
              /\ response = NextResponseRedirect(LoginPath)
              /\ handler = NoHandler

C11_Witness ==
    /\ RenewFailed
    /\ renewCalls = 1
    /\ upstream.kind = "response"
    /\ upstream.status = 500
    /\ Redirected

(* The renewal call failed in transport: the fetch to the refresh route    *)
(* rejected, or the refresh route got no answer from the issuing service.  *)
RenewalTransportFailure ==
    renewResult.done /\ upstream.kind \in {"none", "error"}

(* The issuing service rejected the renewal. *)
RenewalRejected ==
    renewResult.done /\ upstream.kind = "response" /\ upstream.status >= 400

C13_RenewalCallEventuallyAnswered == (pc = "fetch") ~> Answered

(* C14: for a correctly signed access credential with an expiry claim, the *)
(* verifier returns Expired exactly when the clock has reached the claim   *)
(* (the boundary now = exp included) and Valid exactly when it has not.    *)
C14_ExpiredIffClockReachedExp ==
    [][(verifyCalls' = verifyCalls + 1 /\ AccessSigned /\ access.hasExp)
          => /\ verifyResult' = "Expired" <=> now >= access.exp
             /\ verifyResult' = "Valid" <=> now < access.exp]_vars

(* The token was verified at the very second of its expiry claim. *)
C14_Witness ==
    /\ pc = "fetch"
    /\ AccessSigned
    /\ access.hasExp
    /\ access.exp >= 1
    /\ access.exp = now
    /\ receivedAt = now
    /\ verifyResult = "Expired"

(* C15: the verifier fails closed: a credential that cannot be decoded,    *)
(* that has no expiry claim, or whose signature does not match (whatever   *)
(* its expiry claim) is Invalid, never Valid and never Expired, and so     *)
(* starts no renewal.                                                      *)
C15_VerifierFailsClosed ==
    (/\ verifyCalls > 0
     /\ ~access.wellFormed \/ ~access.sigOK \/ ~access.hasExp)
        => /\ verifyResult = "Invalid"
           /\ renewCalls = 0
           /\ ~Admitted

(* A wrongly signed token whose expiry claim is in the past is Invalid. *)
C15_Witness ==
    /\ verifyCalls > 0
    /\ access.wellFormed
    /\ ~access.sigOK
    /\ access.hasExp
    /\ access.exp <= receivedAt
    /\ verifyResult = "Invalid"
    /\ Redirected

(* The path starts with an entry of the public-endpoint allow-list. *)
PublicEndpointPath(p) == SomePrefix(PUBLIC_API_ROUTES, p)

(* C16: a request for a path that starts with an entry of the public       *)
(* endpoint allow-list is admitted without any auth work: no verifier      *)
(* call, no renewal call, answer next().                                   *)
C16_PublicEndpointsAdmitted ==
    (PublicEndpointPath(path) /\ pc # "idle")
        => /\ verifyCalls = 0
           /\ renewCalls = 0
           /\ verifyResult = "none"
           /\ ~authResult.done
           /\ Answered => response = NextResponseNext

C16_Witness ==
    /\ Admitted
    /\ path = "/api/health/x"
    /\ access = Garbage
    /\ verifyCalls = 0

(* The gate treated the request as one for a protected path: it entered    *)
(* isAuthenticated.                                                        *)
TreatedAsProtected == verifyResult # "none"

(* C17: the gate classifies a path as protected exactly when it starts     *)
(* with an entry of the protected-page list (ProtectedPage) or with an     *)
(* entry of the protected-endpoint list and is not on the public           *)
(* allow-list (ProtectedEndpoint), with plain starts-with matching.        *)
C17_ClassifiedByPrefixLists ==
    Answered
        => /\ ProtectedPagePath(path) => TreatedAsProtected
           /\ ProtectedEndpointPath(path) => TreatedAsProtected
           /\ ~ProtectedPath(path) => ~TreatedAsProtected

(* The directives the middleware's response carries, header by header. *)
ResponseDirectives ==
    UNION { { response.setCookie[h][j] : j \in 1..Len(response.setCookie[h]) } :
            h \in 1..Len(response.setCookie) }

(* The issuing service answered the renewal with 200 and the gate took the *)
(* renewal as a success.                                                   *)
RenewedWith200 ==
    /\ Answered
    /\ RenewSucceeded
    /\ upstream.kind = "response"
    /\ upstream.status = 200

(* C18: every set-credential directive the issuing service returned on a   *)
(* successful renewal is carried by the response to the caller with the    *)
(* same name, value, path, cross-site policy, secure flag, max-age and     *)
(* http-only flag.                                                         *)
C18_DirectivesReEmittedUnchanged ==
    RenewedWith200
        => \A i \in 1..Len(upstream.setCookie) :
               upstream.setCookie[i] \in ResponseDirectives

(* C19: when a successful renewal yields N >= 1 set-credential directives, *)
(* the admitted response carries N separate set-cookie headers, one        *)
(* directive each; directives are not merged into one header.              *)
C19_DirectivesKeptSeparate ==
    (RenewedWith200 /\ Len(upstream.setCookie) >= 1)
        => /\ Admitted
           /\ Len(response.setCookie) = Len(upstream.setCookie)
           /\ \A h \in 1..Len(response.setCookie) :
                  Len(response.setCookie[h]) = 1

(* C20: the renewal request carries the Cookie header of the inbound       *)
(* request unchanged on both hops (gate to refresh route, refresh route to *)
(* issuing service); the body of the inbound request is used on neither,   *)
(* and the body sent to the issuing service is always the same.            *)
C20_CookieHeaderForwardedVerbatim ==
    /\ renewCalls > 0
           => /\ fetchReq.sent
              /\ fetchReq.cookie = [access |-> access, refresh |-> refresh]
              /\ fetchReq.body = "none"
    /\ upstreamReq.sent
           => /\ renewCalls > 0
              /\ upstreamReq.cookie = [access |-> access, refresh |-> refresh]
              /\ upstreamReq.body = "{}"

C20_Witness ==
    /\ pc = "fetched"
    /\ upstreamReq.sent
    /\ refresh = "valid"
    /\ body = "refresh=other"

(* C25: the request the gate itself sends to the refresh route passes the  *)
(* gate without any verification or renewal, so one inbound request causes *)
(* at most one verification and one renewal call, and whenever the renewal *)
(* call has resolved it was the refresh route that answered it.            *)
C25_SubRequestAdmittedWithoutAuthWork ==
    /\ PublicEndpointPath(RefreshPath)
    /\ verifyCalls <= 1
    /\ renewCalls <= 1
    /\ pc \in {"route", "fetched"} => verifyCalls = 1 /\ renewCalls = 1
    /\ pc = "fetched" => upstreamReq.sent /\ upstream # NoAnswer

C25_Witness ==
    /\ pc = "route"
    /\ verifyCalls = 1
    /\ renewCalls = 1
    /\ ProtectedPagePath(path)

(* The issuing service answered the renewal call with status 200. *)
UpstreamAnswered200 == upstream.kind = "response" /\ upstream.status = 200

(* C28: the refresh route puts set-cookie directives on its response only  *)
(* when the issuing service answered 200; for every other upstream status, *)
(* and when the call threw, its response has a status other than 200 (the  *)
(* upstream status, or 500) and carries no set-cookie directive.           *)
C28_RefreshRouteSetsCookiesOnlyOn200 ==
    upstream # NoAnswer =>
        /\ Len(proxyResp.setCookie) > 0 => UpstreamAnswered200
        /\ ~UpstreamAnswered200 =>
              /\ proxyResp.status # 200
              /\ proxyResp.status \in {upstream.status, 500}
              /\ upstream.kind = "error" => proxyResp.status = 500
              /\ proxyResp.setCookie = <<>>

C28_Witness ==
    /\ pc = "fetched"
    /\ upstream.kind = "response"
    /\ upstream.status = 201
    /\ Len(upstream.setCookie) = 2
    /\ proxyResp.status = 201
    /\ proxyResp.setCookie = <<>>

(* The evaluation has started and the path is not classified yet. *)
AtStart == pc = "middleware"

(* The path is classified as protected and the outcome is still open. *)
ClassifiedOpen == pc \in {"fetch", "route", "fetched"}

Denied == Answered /\ response.kind \in {"redirect", "status"}

(* C23: an evaluation goes from Start through Classified to exactly one of *)
(* Admitted and Denied: it never ends in a fault, an outcome once reached   *)
(* stays as it is until the request is over, and, the issuing service      *)
(* answering or erroring, every started evaluation reaches its outcome.    *)
C23_EveryEvaluationReachesOneOutcome ==
    /\ [](Answered => (Admitted \/ Denied) /\ ~(Admitted /\ Denied))
    /\ [][/\ AtStart => AtStart' \/ ClassifiedOpen' \/ Answered'
          /\ ClassifiedOpen => ClassifiedOpen' \/ Answered'
          /\ Answered /\ pc' # "idle" => Answered' /\ response' = response
          /\ pc = "idle" => pc' = "idle" \/ AtStart']_vars
    /\ (AtStart ~> Answered)

C23_Witness ==
    /\ Denied
    /\ RenewFailed
    /\ upstream.kind = "error"

(* The issuing service accepted the login: it answered 200 and the login   *)
(* route answered 200 with the user.                                       *)
LoginAccepted ==
    /\ login.called
    /\ login.upstream.kind = "response"
    /\ login.upstream.status = 200
    /\ login.resp.status = 200
    /\ login.resp.user

(* C27: once the login page has dealt with the answer to its submit, it    *)
(* has navigated to /dashboard whenever the issuing service accepted the   *)
(* login, and it shows an error only when the login failed.                *)
C27_AcceptedLoginNavigatesToDashboard ==
    login.pc = "shown" =>
        /\ LoginAccepted => login.navigatedTo = "/dashboard"
        /\ login.error # "" => ~LoginAccepted

(* The field is missing from the body or empty. *)
FieldEmpty(x) == x \in {"absent", ""}

(* C29: whenever the submitted username or password is missing or empty,   *)
(* in a JSON body or a form body, the login route answers 400, has not     *)
(* called the issuing service and sets no cookie; the issuing service is   *)
(* called only when both fields are non-empty.                             *)
C29_MissingFieldsAnswered400WithoutCall ==
    login.resp # NoLoginResp =>
        /\ FieldEmpty(login.username) \/ FieldEmpty(login.password) =>
              /\ login.resp.status = 400
              /\ ~login.called
              /\ login.resp.setCookie = <<>>
        /\ login.called =>
              ~FieldEmpty(login.username) /\ ~FieldEmpty(login.password)

C29_Witness ==
    /\ login.pc = "answered"
    /\ login.contentType = "application/x-www-form-urlencoded"
    /\ login.username = "u"
    /\ login.password = "absent"
    /\ login.resp.status = 400
    /\ ~login.called

(* The browser has an earlier request behind it and the answer to its      *)
(* current one is there.                                                   *)
AnsweredAgain == Answered /\ client.stage = "waiting" /\ client.count > 1

(* C22: classifying the same path a second time gives the same category,   *)
(* and a credential that verified as Valid verifies as Valid again when    *)
(* it is still unexpired: the first evaluation left nothing behind that    *)
(* the second one reads.                                                   *)
C22_ClassifyAndVerifyAreIdempotent ==
    AnsweredAgain =>
        /\ path = client.last.path
              => (TreatedAsProtected <=> client.last.verify # "none")
        /\ (/\ client.sameToken
            /\ client.last.verify = "Valid"
            /\ AccessUnexpired
            /\ TreatedAsProtected) => verifyResult = "Valid"

C22_Witness ==
    /\ AnsweredAgain
    /\ path = client.last.path
    /\ client.sameToken
    /\ client.last.verify = "Valid"
    /\ verifyResult = "Valid"
    /\ receivedAt > 0

(* C24: a browser that was admitted to a protected page through a          *)
(* successful renewal, applied the access credential of that response and  *)
(* asks for the same path again while the new credential is unexpired is   *)
(* admitted with verify = Valid and without a renewal call.                *)
C24_RenewedSessionContinues ==
    (/\ AnsweredAgain
     /\ client.applied
     /\ client.last.renewed
     /\ client.last.kind = "next"
     /\ ProtectedPagePath(client.last.path)
     /\ path = client.last.path
     /\ now < client.issuedExp)
        => /\ Admitted
           /\ verifyResult = "Valid"
           /\ renewCalls = 0

C24_Witness ==
    /\ AnsweredAgain
    /\ client.applied
    /\ client.last.renewed
    /\ ProtectedPagePath(client.last.path)
    /\ path = client.last.path
    /\ now < client.issuedExp
    /\ receivedAt > 0
    /\ Admitted
    /\ verifyResult = "Valid"

(* C26: the path a denied page request is redirected to is not protected,  *)
(* so the browser that follows the redirect with the same cookies is       *)
(* admitted, without auth work, and is not redirected again.               *)
C26_NoRedirectLoop ==
    /\ Redirected => ~ProtectedPagePath(response.location)
    /\ (/\ AnsweredAgain
        /\ client.last.kind = "redirect"
        /\ client.sameToken
        /\ path = client.last.location)
           => /\ Admitted
              /\ verifyCalls = 0
              /\ renewCalls = 0

C26_Witness ==
    /\ AnsweredAgain
    /\ client.last.kind = "redirect"
    /\ ProtectedPagePath(client.last.path)
    /\ client.access.present
    /\ path = client.last.location
    /\ Admitted

(* C30: a credential that verified as Expired verifies as Expired on every *)
(* later request and never as Valid, so a request carrying it is admitted  *)
(* to a protected page only through a successful renewal.                  *)
C30_ExpiredStaysExpired ==
    (/\ AnsweredAgain
     /\ client.sameToken
     /\ client.last.verify = "Expired")
        => /\ TreatedAsProtected => verifyResult = "Expired"
           /\ ProtectedPagePath(path) /\ Admitted => RenewSucceeded

C30_Witness ==
    /\ AnsweredAgain
    /\ client.sameToken
    /\ client.last.verify = "Expired"
    /\ verifyResult = "Expired"
    /\ receivedAt > client.access.exp + 1
    /\ Redirected

(* The outcome of a request evaluated alone, from its path, its access     *)
(* credential, the clock at its verification and the answer to its own     *)
(* renewal call: a page that is not protected is admitted; a protected one *)
(* is admitted with an unexpired credential, redirected with none or an    *)
(* unusable one, and with an expired one admitted or redirected as its     *)
(* renewal call was answered with 200 or not.                              *)
AloneKind(e) ==
    IF ~ProtectedPagePath(e.path) THEN "next"
    ELSE IF ~(e.access.present /\ e.access.wellFormed /\ e.access.sigOK
              /\ e.access.hasExp)
         THEN "redirect"
    ELSE IF e.verifiedAt < e.access.exp THEN "next"
    ELSE IF e.upstream.kind = "response" /\ e.upstream.status = 200
         THEN "next"
    ELSE "redirect"

(* The cookie names the response of an evaluation sets *)
CarriedNames(e) ==
    UNION { { e.response.setCookie[h][j].name :
                j \in 1..Len(e.response.setCookie[h]) } :
            h \in 1..Len(e.response.setCookie) }

(* The cookie names the answer to the evaluation's own renewal call set *)
OwnNames(e) ==
    IF e.upstream.kind = "response" /\ e.upstream.status = 200
    THEN { e.upstream.setCookie[j].name : j \in 1..Len(e.upstream.setCookie) }
    ELSE {}

(* C21: with any number of requests evaluated at once, in any interleaving *)
(* of their steps, each request gets the outcome it gets when evaluated    *)
(* alone and carries only what its own renewal call returned; a step of    *)
(* one evaluation changes nothing of another, and nothing of an evaluation *)
(* is left once it has ended.                                              *)
C21_EvaluationsDoNotInterfere ==
    /\ [](\A i \in Evaluations :
            /\ evals[i].pc = "responded"
                  => /\ evals[i].response.kind = AloneKind(evals[i])
                     /\ CarriedNames(evals[i]) = OwnNames(evals[i])
            /\ evals[i].pc = "idle" => evals[i] = IdleEval)
    /\ [][\A i, j \in Evaluations :
            i # j /\ evals'[i] # evals[i] => evals'[j] = evals[j]]_vars

C21_Witness ==
    /\ evals[1].pc = "responded"
    /\ evals[1].response.kind = "redirect"
    /\ evals[1].upstream.status = 401
    /\ evals[2].pc = "fetched"
    /\ evals[2].proxyResp.status = 200
    /\ evals[2].path = evals[1].path
    /\ evals[2].access = evals[1].access

====
